---- MODULE Spec2Model ----
(***************************************************************************)
(* The AEC deep-clustering estimator of clustpy/deep/aec.py: the wrapper   *)
(* AEC (fit / predict), the procedure _aec and the clustering module       *)
(* _AEC_Module (update_centroids / fit).                                   *)
(*                                                                         *)
(* Numbers.  A data set is a sequence of integer features.  The network is *)
(* a linear encoder [w]; the embedding of feature x has embedding_size     *)
(* coordinates, coordinate d being w*x*d.  A centroid is the exact         *)
(* rational mean of a group of embeddings, kept as [sum, cnt] in lowest    *)
(* terms (coordinate d is sum[d]/cnt); cnt = 0 is the row of NaN that      *)
(* numpy's mean of an empty selection yields.  Labels are 0-based cluster  *)
(* indices, as in the code; row i of the centers is centers[i+1].          *)
(***************************************************************************)
EXTENDS Integers, Sequences, FiniteSets, TLC

\* ---------------------------------------------------------------- bounds
MaxSamples == 2
MaxEpochs == 2
MaxClusters == 2
MaxWeight == 2
SmallBatch == 1
EmbeddingSize == 2
TruthClass == 7
MaxLoaderCalls == 3

\* batch_size default of AEC.__init__
DefaultBatch == 256

\* ------------------------------------------------------------ value domains
\* Python's None for the optional arguments and attributes that hold a string.
None == "None"

\* A data set of n samples: the features 0 .. n-1 in a fixed order.
DataSet(n) == [j \in 1..n |-> j - 1]
DataSets == {DataSet(n) : n \in 1..MaxSamples}

\* The caller's label array y of fit(X, y): None (<<>>) or one ground-truth
\* class id per sample.  Ground-truth ids are the caller's values, here ids
\* that no cluster index equals, so that any use of y by fit shows.
YChoices(data) == {<<>>, <<[j \in 1..Len(data) |-> TruthClass + (j % 2)]>>}

Networks == [w : 0..MaxWeight]

Configs ==
    [n_clusters : {MaxClusters},
     clustering_epochs : 0..MaxEpochs,
     batch_size : {SmallBatch, DefaultBatch},
     embedding_size : {EmbeddingSize},
     augmentation_invariance : BOOLEAN,
     custom_dataloaders : {None, "custom"}]

VARIABLES
    cfg,              \* the constructor's parameters (AEC.__init__)
    self,             \* the result attributes the estimator has: labels_, cluster_centers_
    neural_network,   \* self.neural_network: <<>> (None) or <<network>>
    pc,               \* where the fit in progress stands; "idle" when none is
    X, y,             \* the arguments of the latest fit call (caller-owned arrays)
    net,              \* _aec's neural_network: <<>> or <<network>>
    labels, centers,  \* aec_module.labels, aec_module.centers
    embedded,         \* the local embedded of _AEC_Module.fit: <<>> outside a refresh
    epoch, batch,     \* completed epochs of the loop; batches done in the current epoch
    optSteps,         \* optimizer.step() calls of the latest fit
    refreshes,        \* refresh phases completed by the latest fit
    outcome,          \* of the latest fit call: "none" (no call yet), "running", "ok", "error"
    predOut,          \* <<>> or <<[X, labels]>>: argument and return value of the latest predict
    batchOps,         \* what the latest mini-batch of the fit in progress did, in order
    files,            \* the download directory: per data file "absent", "complete" or "partial"
    https_context,    \* ssl._create_default_https_context: "verified" or "unverified"
    lpc,              \* where the loader call in progress stands; "idle" when none is
    lfile,            \* the file _load_data_file is called for
    ladd,             \* add_testdata of the load_optdigits call
    downloads,        \* per data file, the urlretrieve calls made for it
    lcalls,           \* loader calls made
    lkind             \* the latest loader call: "none", "optdigits", "usps"

loaderVars == <<files, https_context, lpc, lfile, ladd, downloads, lcalls, lkind>>

vars == <<cfg, self, neural_network, pc, X, y, net, labels, centers, embedded,
          epoch, batch, optSteps, refreshes, outcome, predOut, batchOps, loaderVars>>

\* ------------------------------------------------------------ arithmetic
RECURSIVE Gcd(_, _)
Gcd(a, b) == IF b = 0 THEN a ELSE Gcd(b, a % b)

RECURSIVE GcdSeq(_, _)
GcdSeq(s, g) == IF s = <<>> THEN g ELSE GcdSeq(Tail(s), Gcd(Head(s), g))

RECURSIVE SumCoord(_, _, _)
SumCoord(rows, idx, d) ==
    IF idx = {} THEN 0
    ELSE LET j == CHOOSE k \in idx : TRUE
         IN  rows[j][d] + SumCoord(rows, idx \ {j}, d)

\* np.mean(rows[idx], axis=0): one value per column of rows; NaN in every
\* column when idx selects no row.
MeanRows(rows, idx) ==
    LET width == Len(rows[1])
        sums  == [d \in 1..width |-> SumCoord(rows, idx, d)]
        g     == GcdSeq(sums, Cardinality(idx))
    IN  IF idx = {} THEN [sum |-> [d \in 1..width |-> 0], cnt |-> 0]
        ELSE [sum |-> [d \in 1..width |-> sums[d] \div g], cnt |-> Cardinality(idx) \div g]

IsNaN(c) == c.cnt = 0

\* Squared Euclidean distance of embedding e to a defined centroid c, times c.cnt^2.
ScaledDist(e, c) ==
    LET sq == [d \in 1..Len(e) |-> <<(e[d] * c.cnt - c.sum[d]) * (e[d] * c.cnt - c.sum[d])>>]
    IN  SumCoord(sq, 1..Len(e), 1)

\* dist(e, a) < dist(e, b) for defined centroids a, b
Closer(e, a, b) == ScaledDist(e, a) * b.cnt * b.cnt < ScaledDist(e, b) * a.cnt * a.cnt

\* The index (0-based) of the row of rows nearest to e: the first of the
\* minimal ones.  A NaN row has NaN distance, and the minimum propagates NaN:
\* the first NaN row is returned.
ArgMinDist(e, rows) ==
    LET nan  == {i \in 1..Len(rows) : IsNaN(rows[i])}
        best == {i \in 1..Len(rows) : \A k \in 1..Len(rows) : ~Closer(e, rows[k], rows[i])}
        first(S) == CHOOSE i \in S : \A k \in S : i <= k
    IN  IF nan # {} THEN first(nan) - 1 ELSE first(best) - 1

\* ------------------------------------------------- external collaborators
\* neural_network.encode on one sample
Encode(network, x) == [d \in 1..cfg.embedding_size |-> network.w * x * d]

\* encode_batchwise(testloader, neural_network): the whole data set, in order
encode_batchwise(data, network) == [j \in 1..Len(data) |-> Encode(network, data[j])]

\* _AbstractDeepClusteringAlgo.transform(X): X through the stored network
transform(data) == encode_batchwise(data, neural_network[1])

\* _DCN_Module.predict_hard(embedded): index of the nearest center, per sample
predict_hard(embeddedRows, centerRows) ==
    [j \in 1..Len(embeddedRows) |-> ArgMinDist(embeddedRows[j], centerRows)]

\* embedded_kmeans_prediction(X_embed, cluster_centers_)
embedded_kmeans_prediction(embeddedRows, centerRows) ==
    [data |-> [j \in 1..Len(embeddedRows) |-> ArgMinDist(embeddedRows[j], centerRows)],
     dtype |-> "int32"]

\* augmentation_invariance_check(augmentation_invariance, custom_dataloaders) raises
augmentation_invariance_check(augmentation_invariance, custom_dataloaders) ==
    augmentation_invariance /\ custom_dataloaders = None

\* len(trainloader): batches of batch_size samples, the last one possibly smaller
NumBatches(data) == (Len(data) + cfg.batch_size - 1) \div cfg.batch_size

\* The labelings an initial clustering can return for n samples and k clusters:
\* every cluster index 0 .. k-1 is used.
InitialLabelings(n, k) ==
    {l \in [1..n -> 0..(k - 1)] : \A i \in 0..(k - 1) : \E j \in 1..n : l[j] = i}

\* ----------------------------------------------------------- _AEC_Module
\* update_centroids that returns a row only for the clusters that have samples
update_centroids_nonempty(centerRows, embeddedRows, labelRow) ==
    LET n_clusters == Len(centerRows)
        all == [i \in 1..n_clusters |->
                   MeanRows(embeddedRows, {j \in 1..Len(labelRow) : labelRow[j] = i - 1})]
    IN  SelectSeq(all, LAMBDA c : ~IsNaN(c))

\* update_centroids that takes the mean over all rows for every cluster
update_centroids_all_rows(centerRows, embeddedRows, labelRow) ==
    LET n_clusters == Len(centerRows)
    IN  [i \in 1..n_clusters |-> MeanRows(embeddedRows, 1..Len(labelRow))]

\* update_centroids(self, embedded, labels), self.centers being centerRows
update_centroids(centerRows, embeddedRows, labelRow) ==
    LET n_clusters == Len(centerRows)
    IN  [i \in 1..n_clusters |->
            MeanRows(embeddedRows, {j \in 1..Len(labelRow) : labelRow[j] = i - 1})]

\* the labels copied out without the cast: torch's int64 is kept
AsNumpyNoCast(labelRow) ==
    [data |-> [j \in 1..Len(labelRow) |-> labelRow[j]], dtype |-> "int64"]

\* aec_module.labels.detach().cpu().numpy().astype(np.int32)
AsNumpyInt32(labelRow) ==
    [data |-> [j \in 1..Len(labelRow) |-> labelRow[j]], dtype |-> "int32"]

\* ---------------------------------------------------------------- states
\* The data files of load_optdigits, by their names in the download directory.
DataFiles == {"optdigits.tra", "optdigits.tes"}

\* No loader has been called: the interpreter's default HTTPS context factory
\* is the verifying one.
LoaderStart ==
    /\ https_context = "verified"
    /\ lpc = "idle"
    /\ lfile = "optdigits.tra"
    /\ ladd = FALSE
    /\ downloads = [f \in DataFiles |-> 0]
    /\ lcalls = 0
    /\ lkind = "none"

LoaderIdle ==
    /\ LoaderStart
    /\ files = [f \in DataFiles |-> "absent"]

EstimatorInit ==
    /\ cfg \in Configs
    /\ self = <<>>
    /\ neural_network = <<>>
    /\ pc = "idle"
    /\ X = <<>>
    /\ y = <<>>
    /\ net = <<>>
    /\ labels = <<>>
    /\ centers = <<>>
    /\ embedded = <<>>
    /\ epoch = 0
    /\ batch = 0
    /\ optSteps = 0
    /\ refreshes = 0
    /\ outcome = "none"
    /\ predOut = <<>>
    /\ batchOps = <<>>

Init ==
    /\ EstimatorInit
    /\ LoaderIdle

Running == pc \in {"train", "encoded", "centered"}

\* The frame of _aec is dropped: an exception or the return leaves it.
DropFrame ==
    /\ net' = <<>>
    /\ labels' = <<>>
    /\ centers' = <<>>
    /\ embedded' = <<>>
    /\ epoch' = 0
    /\ batch' = 0
    /\ batchOps' = <<>>

\* ------------------------------------------------------------------- AEC.fit
\* fit that calls _aec without the configuration check
FitCallUnchecked ==
    /\ pc = "idle"
    /\ \E data \in DataSets : \E labelArray \in YChoices(data) :
          /\ X' = data
          /\ y' = labelArray
    /\ optSteps' = 0
    /\ refreshes' = 0
    /\ predOut' = <<>>
    /\ pc' = "init"
    /\ outcome' = "running"
    /\ UNCHANGED <<loaderVars, batchOps, cfg, self, neural_network, net, labels, centers, embedded, epoch, batch>>

\* fit(X, y) is called: the configuration check of its first line, and, when it
\* passes, the call of _aec.
FitCall ==
    /\ pc = "idle"
    /\ \E data \in DataSets : \E labelArray \in YChoices(data) :
          /\ X' = data
          /\ y' = labelArray
    /\ optSteps' = 0
    /\ refreshes' = 0
    /\ predOut' = <<>>
    /\ IF augmentation_invariance_check(cfg.augmentation_invariance, cfg.custom_dataloaders)
       THEN /\ pc' = "idle"
            /\ outcome' = "error"
       ELSE /\ pc' = "init"
            /\ outcome' = "running"
    /\ UNCHANGED <<loaderVars, batchOps, cfg, self, neural_network, net, labels, centers, embedded, epoch, batch>>

\* get_default_deep_clustering_initialization, then the module and the optimizer
\* are set up: a network given to it is used as it is (the same object), a
\* missing one is created and pretrained; the initial clustering of the
\* embeddings gives the labels, and the centers are the means of its clusters.
Initialize ==
    /\ pc = "init"
    /\ Len(X) >= cfg.n_clusters
    /\ \E pretrained \in (IF neural_network = <<>> THEN Networks ELSE {neural_network[1]}) :
       \E init_labels \in InitialLabelings(Len(X), cfg.n_clusters) :
          LET emb == encode_batchwise(X, pretrained)
              init_centers == [i \in 1..cfg.n_clusters |->
                                 MeanRows(emb, {j \in 1..Len(X) : init_labels[j] = i - 1})]
          IN  /\ net' = <<pretrained>>
              /\ labels' = init_labels
              /\ centers' = init_centers
    /\ epoch' = 0
    /\ batch' = 0
    /\ pc' = "train"
    /\ UNCHANGED <<loaderVars, batchOps, cfg, self, neural_network, X, y, embedded, optSteps, refreshes,
                   outcome, predOut>>

\* The initial clustering raises on fewer samples than clusters; the error
\* leaves fit.
InitializeRaises ==
    /\ pc = "init"
    /\ Len(X) < cfg.n_clusters
    /\ pc' = "idle"
    /\ outcome' = "error"
    /\ UNCHANGED <<loaderVars, batchOps, cfg, self, neural_network, X, y, net, labels, centers, embedded,
                   epoch, batch, optSteps, refreshes, predOut>>

\* ---------------------------------------------------------- _AEC_Module.fit
\* a mini-batch that also recomputes the centers from the embeddings under the
\* updated network
TrainBatchUpdatingCenters ==
    /\ pc = "train"
    /\ epoch < cfg.clustering_epochs
    /\ batch < NumBatches(X)
    /\ \E updated \in Networks :
          /\ net' = <<updated>>
          /\ neural_network' = IF neural_network = <<>> THEN <<>> ELSE <<updated>>
          /\ centers' = update_centroids(centers, encode_batchwise(X, updated), labels)
    /\ batch' = batch + 1
    /\ optSteps' = optSteps + 1
    /\ batchOps' = <<"loss", "zero_grad", "backward", "step">>
    /\ UNCHANGED <<loaderVars, cfg, self, pc, X, y, labels, embedded, epoch, refreshes,
                   outcome, predOut>>

\* a mini-batch that resets the gradients after the backward pass
TrainBatchResetAfterBackward ==
    /\ pc = "train"
    /\ epoch < cfg.clustering_epochs
    /\ batch < NumBatches(X)
    /\ \E updated \in Networks :
          /\ net' = <<updated>>
          /\ neural_network' = IF neural_network = <<>> THEN <<>> ELSE <<updated>>
    /\ batch' = batch + 1
    /\ optSteps' = optSteps + 1
    /\ batchOps' = <<"loss", "backward", "zero_grad", "step">>
    /\ UNCHANGED <<loaderVars, cfg, self, pc, X, y, labels, centers, embedded, epoch, refreshes,
                   outcome, predOut>>

\* a loop over range(n_epochs + 1)
TrainBatchOneMoreEpoch ==
    /\ pc = "train"
    /\ epoch <= cfg.clustering_epochs
    /\ batch < NumBatches(X)
    /\ \E updated \in Networks :
          /\ net' = <<updated>>
          /\ neural_network' = IF neural_network = <<>> THEN <<>> ELSE <<updated>>
    /\ batch' = batch + 1
    /\ optSteps' = optSteps + 1
    /\ batchOps' = <<"loss", "zero_grad", "backward", "step">>
    /\ UNCHANGED <<loaderVars, cfg, self, pc, X, y, labels, centers, embedded, epoch, refreshes,
                   outcome, predOut>>

\* One mini-batch of the network update phase: loss, zero_grad, backward, step.
\* The step changes the parameters of the network object, which is also the
\* estimator's when the estimator's network was handed in.
TrainBatch ==
    /\ pc = "train"
    /\ epoch < cfg.clustering_epochs
    /\ batch < NumBatches(X)
    /\ \E updated \in Networks :
          /\ net' = <<updated>>
          /\ neural_network' = IF neural_network = <<>> THEN <<>> ELSE <<updated>>
    /\ batch' = batch + 1
    /\ optSteps' = optSteps + 1
    /\ batchOps' = <<"loss", "zero_grad", "backward", "step">>
    /\ UNCHANGED <<loaderVars, cfg, self, pc, X, y, labels, centers, embedded, epoch, refreshes,
                   outcome, predOut>>

\* an encoding that does not wait for the last batch of the epoch
EncodeAllEarly ==
    /\ pc = "train"
    /\ epoch < cfg.clustering_epochs
    /\ batch <= NumBatches(X)
    /\ embedded' = encode_batchwise(X, net[1])
    /\ pc' = "encoded"
    /\ UNCHANGED <<loaderVars, batchOps, cfg, self, neural_network, X, y, net, labels, centers, epoch, batch,
                   optSteps, refreshes, outcome, predOut>>

\* embedded = encode_batchwise(testloader, neural_network), after the last batch
EncodeAll ==
    /\ pc = "train"
    /\ epoch < cfg.clustering_epochs
    /\ batch = NumBatches(X)
    /\ embedded' = encode_batchwise(X, net[1])
    /\ pc' = "encoded"
    /\ UNCHANGED <<loaderVars, batchOps, cfg, self, neural_network, X, y, net, labels, centers, epoch, batch,
                   optSteps, refreshes, outcome, predOut>>

\* the refresh in the other order: the labels are recomputed first, and the
\* centroids are the means under the recomputed labels
UpdateCentersFromNewLabels ==
    /\ pc = "encoded"
    /\ centers' = update_centroids(centers, embedded, predict_hard(embedded, centers))
    /\ pc' = "centered"
    /\ UNCHANGED <<loaderVars, batchOps, cfg, self, neural_network, X, y, net, labels, embedded, epoch, batch,
                   optSteps, refreshes, outcome, predOut>>

\* centers = self.update_centroids(embedded, self.labels); self.centers = centers
UpdateCenters ==
    /\ pc = "encoded"
    /\ centers' = update_centroids(centers, embedded, labels)
    /\ pc' = "centered"
    /\ UNCHANGED <<loaderVars, batchOps, cfg, self, neural_network, X, y, net, labels, embedded, epoch, batch,
                   optSteps, refreshes, outcome, predOut>>

\* a label refresh that numbers the clusters from 1
UpdateLabelsOneBased ==
    /\ pc = "centered"
    /\ labels' = [j \in 1..Len(embedded) |-> predict_hard(embedded, centers)[j] + 1]
    /\ embedded' = <<>>
    /\ epoch' = epoch + 1
    /\ batch' = 0
    /\ refreshes' = refreshes + 1
    /\ pc' = "train"
    /\ UNCHANGED <<loaderVars, batchOps, cfg, self, neural_network, X, y, net, centers, optSteps, outcome,
                   predOut>>

\* labels = self.predict_hard(embedded); self.labels = labels; the epoch ends
UpdateLabels ==
    /\ pc = "centered"
    /\ labels' = predict_hard(embedded, centers)
    /\ embedded' = <<>>
    /\ epoch' = epoch + 1
    /\ batch' = 0
    /\ refreshes' = refreshes + 1
    /\ pc' = "train"
    /\ UNCHANGED <<loaderVars, batchOps, cfg, self, neural_network, X, y, net, centers, optSteps, outcome,
                   predOut>>

\* a loop that also stops early, once one epoch has run
FitReturnEarly ==
    /\ pc = "train"
    /\ batch = 0
    /\ epoch >= cfg.clustering_epochs \/ epoch >= 1
    /\ self' = [a \in {"labels_", "cluster_centers_"} |->
                  IF a = "labels_" THEN AsNumpyInt32(labels) ELSE centers]
    /\ neural_network' = net
    /\ pc' = "idle"
    /\ outcome' = "ok"
    /\ DropFrame
    /\ UNCHANGED <<loaderVars, cfg, X, y, optSteps, refreshes, predOut>>

\* a fit that takes the labels from y when y is given
FitReturnUsingY ==
    /\ pc = "train"
    /\ epoch >= cfg.clustering_epochs
    /\ self' = [a \in {"labels_", "cluster_centers_"} |->
                  IF a = "labels_"
                  THEN AsNumpyInt32(IF y = <<>> THEN labels ELSE y[1])
                  ELSE centers]
    /\ neural_network' = net
    /\ pc' = "idle"
    /\ outcome' = "ok"
    /\ DropFrame
    /\ UNCHANGED <<loaderVars, cfg, X, y, optSteps, refreshes, predOut>>

\* a fit that stores labels and centers but keeps the network it had
FitReturnKeepingNetwork ==
    /\ pc = "train"
    /\ epoch >= cfg.clustering_epochs
    /\ self' = [a \in {"labels_", "cluster_centers_"} |->
                  IF a = "labels_" THEN AsNumpyInt32(labels) ELSE centers]
    /\ neural_network' = neural_network
    /\ pc' = "idle"
    /\ outcome' = "ok"
    /\ DropFrame
    /\ UNCHANGED <<loaderVars, cfg, X, y, optSteps, refreshes, predOut>>

\* The loop is exhausted: _aec copies labels and centers out and returns, and
\* fit stores the three results.
FitReturn ==
    /\ pc = "train"
    /\ epoch >= cfg.clustering_epochs
    /\ self' = [a \in {"labels_", "cluster_centers_"} |->
                  IF a = "labels_" THEN AsNumpyInt32(labels) ELSE centers]
    /\ neural_network' = net
    /\ pc' = "idle"
    /\ outcome' = "ok"
    /\ DropFrame
    /\ UNCHANGED <<loaderVars, cfg, X, y, optSteps, refreshes, predOut>>

\* a fit that stores the module's labels and centers when the loop raises
RaiseStoringPartial ==
    /\ Running
    /\ self' = [a \in {"labels_", "cluster_centers_"} |->
                  IF a = "labels_" THEN AsNumpyInt32(labels) ELSE centers]
    /\ pc' = "idle"
    /\ outcome' = "error"
    /\ DropFrame
    /\ UNCHANGED <<loaderVars, cfg, neural_network, X, y, optSteps, refreshes, predOut>>

\* A step of the training loop raises (a loader, the loss, the optimizer): fit
\* catches nothing, the exception leaves it.
Raise ==
    /\ Running
    /\ pc' = "idle"
    /\ outcome' = "error"
    /\ DropFrame
    /\ UNCHANGED <<loaderVars, cfg, self, neural_network, X, y, optSteps, refreshes, predOut>>

\* --------------------------------------------------------------- AEC.predict
\* a predict that keeps its result as labels_
PredictStoring ==
    /\ pc = "idle"
    /\ "cluster_centers_" \in DOMAIN self
    /\ neural_network # <<>>
    /\ \E data \in DataSets :
          LET out == embedded_kmeans_prediction(transform(data), self["cluster_centers_"])
          IN  /\ predOut' = <<[X |-> data, labels |-> out]>>
              /\ self' = [self EXCEPT !["labels_"] = out]
    /\ UNCHANGED <<loaderVars, batchOps, cfg, neural_network, pc, X, y, net, labels, centers, embedded,
                   epoch, batch, optSteps, refreshes, outcome>>

Predict ==
    /\ pc = "idle"
    /\ "cluster_centers_" \in DOMAIN self
    /\ neural_network # <<>>
    /\ \E data \in DataSets :
          predOut' = <<[X |-> data,
                        labels |-> embedded_kmeans_prediction(transform(data),
                                                              self["cluster_centers_"])]>>
    /\ UNCHANGED <<loaderVars, batchOps, cfg, self, neural_network, pc, X, y, net, labels, centers, embedded,
                   epoch, batch, optSteps, refreshes, outcome>>

Next ==
    \/ FitCall
    \/ Initialize
    \/ InitializeRaises
    \/ TrainBatch
    \/ EncodeAll
    \/ UpdateCenters
    \/ UpdateLabels
    \/ FitReturn
    \/ Raise
    \/ Predict

Spec == Init /\ [][Next]_vars

\* ------------------------------------------------- cluspy.data loaders
estimatorVars == <<cfg, self, neural_network, pc, X, y, net, labels, centers, embedded,
                   epoch, batch, optSteps, refreshes, outcome, predOut, batchOps>>

\* load_optdigits(add_testdata, downloads_path) is called: _load_data_file is
\* called for the training file first.
load_optdigits ==
    /\ lpc = "idle"
    /\ lcalls < MaxLoaderCalls
    /\ \E add_testdata \in BOOLEAN : ladd' = add_testdata
    /\ lfile' = "optdigits.tra"
    /\ lpc' = "check"
    /\ lcalls' = lcalls + 1
    /\ lkind' = "optdigits"
    /\ UNCHANGED <<files, https_context, downloads, estimatorVars>>

\* a _load_data_file that downloads without looking for the file
IsFileCheckAlwaysFetching ==
    /\ lpc = "check"
    /\ lpc' = "fetch"
    /\ UNCHANGED <<files, https_context, lfile, ladd, downloads, lcalls, lkind,
                   estimatorVars>>

\* _load_data_file: if not os.path.isfile(filename)
IsFileCheck ==
    /\ lpc = "check"
    /\ lpc' = IF files[lfile] = "absent" THEN "fetch" ELSE "read"
    /\ UNCHANGED <<files, https_context, lfile, ladd, downloads, lcalls, lkind,
                   estimatorVars>>

\* _download_file returns: the context factory is set to the unverified one,
\* urlretrieve writes the file, and the factory is assigned to itself.
DownloadFile ==
    /\ lpc = "fetch"
    /\ downloads' = [downloads EXCEPT ![lfile] = @ + 1]
    /\ files' = [files EXCEPT ![lfile] = "complete"]
    /\ https_context' = "unverified"
    /\ lpc' = "read"
    /\ UNCHANGED <<lfile, ladd, lcalls, lkind, estimatorVars>>

\* urlretrieve raises: before it has created the file (the URL cannot be
\* opened) or after it has written a part of it; the exception leaves the
\* loader.
DownloadFileRaises ==
    /\ lpc = "fetch"
    /\ downloads' = [downloads EXCEPT ![lfile] = @ + 1]
    /\ \E left \in {"absent", "partial"} : files' = [files EXCEPT ![lfile] = left]
    /\ https_context' = "unverified"
    /\ lpc' = "idle"
    /\ UNCHANGED <<lfile, ladd, lcalls, lkind, estimatorVars>>

\* _load_data_file reads the file and returns; load_optdigits goes on to the
\* test file when add_testdata is set, and returns otherwise.
ReadDataFile ==
    /\ lpc = "read"
    /\ IF lfile = "optdigits.tra" /\ ladd
       THEN /\ lfile' = "optdigits.tes"
            /\ lpc' = "check"
       ELSE /\ lfile' = lfile
            /\ lpc' = "idle"
    /\ UNCHANGED <<files, https_context, ladd, downloads, lcalls, lkind, estimatorVars>>

\* load_usps (and _load_torch_image_data): the context factory is set to the
\* unverified one, torchvision loads the data set, and the factory is assigned
\* to itself.
load_usps ==
    /\ lpc = "idle"
    /\ lcalls < MaxLoaderCalls
    /\ https_context' = "unverified"
    /\ lcalls' = lcalls + 1
    /\ lkind' = "usps"
    /\ UNCHANGED <<files, lpc, lfile, ladd, downloads, estimatorVars>>

LoaderInit ==
    /\ EstimatorInit
    /\ cfg.clustering_epochs = MaxEpochs
    /\ cfg.batch_size = DefaultBatch
    /\ ~cfg.augmentation_invariance
    /\ cfg.custom_dataloaders = None
    /\ LoaderStart
    /\ files \in [DataFiles -> {"absent", "complete"}]

LoaderNext ==
    \/ load_optdigits
    \/ IsFileCheck
    \/ DownloadFile
    \/ DownloadFileRaises
    \/ ReadDataFile
    \/ load_usps

LoaderSpec == LoaderInit /\ [][LoaderNext]_vars

\* --------------------------------------------- the refresh on any module state
\* Embedding rows a network can produce for a sample.
RefreshRows == {[d \in 1..EmbeddingSize |-> w * d] : w \in 0..MaxWeight}

\* _AEC_Module.fit stands at its first refresh with any embedding of the data
\* set and any labels of the initial clustering, the noise label -1 of a
\* density-based one included; of the centers only the number of rows is read.
RefreshInit ==
    /\ cfg \in Configs
    /\ cfg.clustering_epochs = MaxEpochs
    /\ cfg.batch_size = DefaultBatch
    /\ ~cfg.augmentation_invariance
    /\ cfg.custom_dataloaders = None
    /\ self = <<>>
    /\ neural_network = <<>>
    /\ pc = "encoded"
    /\ X = DataSet(MaxSamples + 1)
    /\ y = <<>>
    /\ net = <<[w |-> 1]>>
    /\ labels \in [1..(MaxSamples + 1) -> (-1)..(MaxClusters - 1)]
    /\ embedded \in [1..(MaxSamples + 1) -> RefreshRows]
    /\ centers = [i \in 1..MaxClusters |-> MeanRows(embedded, 1..(MaxSamples + 1))]
    /\ epoch = 0
    /\ batch = 1
    /\ optSteps = 1
    /\ refreshes = 0
    /\ outcome = "running"
    /\ predOut = <<>>
    /\ batchOps = <<"loss", "zero_grad", "backward", "step">>
    /\ LoaderIdle

RefreshNext ==
    \/ TrainBatch
    \/ EncodeAll
    \/ UpdateCenters
    \/ UpdateLabels

RefreshSpec == RefreshInit /\ [][RefreshNext]_vars

\* ------------------------------------------------------------- properties
HasLabels == "labels_" \in DOMAIN self
HasCenters == "cluster_centers_" \in DOMAIN self

\* C1: after fit(X) has returned, labels_ has one entry per sample of X (the
\* shape of the data set's label vector) and dtype int32; before the first fit
\* the estimator has no labels_.
C1_LabelsShapeAndDtype ==
    /\ outcome = "none" => ~HasLabels
    /\ outcome = "ok" =>
          /\ HasLabels
          /\ Len(self["labels_"].data) = Len(X)
          /\ y # <<>> => DOMAIN self["labels_"].data = DOMAIN y[1]
          /\ self["labels_"].dtype = "int32"

C1_Witness ==
    /\ outcome = "ok"
    /\ cfg.clustering_epochs >= 1
    /\ Len(X) = MaxSamples
    /\ y # <<>>
    /\ HasLabels

\* C2: during the module's fit and in cluster_centers_ the centroid set has
\* n_clusters rows of embedding_size entries each, and update_centroids returns
\* as many rows as the module has centers.
CentersShape(rows) ==
    /\ Len(rows) = cfg.n_clusters
    /\ \A i \in 1..Len(rows) : Len(rows[i].sum) = cfg.embedding_size

C2_CentersShape ==
    /\ Running => CentersShape(centers)
    /\ HasCenters => CentersShape(self["cluster_centers_"])
    /\ pc = "encoded" => Len(update_centroids(centers, embedded, labels)) = Len(centers)

C2_Witness ==
    /\ pc = "centered"
    /\ epoch >= 1
    /\ \E i \in 1..Len(centers) : IsNaN(centers[i])

\* C3: in every epoch the centroids are recomputed first, from the labels the
\* previous epoch (or the initialization) left, and the labels are recomputed
\* afterwards from those new centroids: the labels do not change from the start
\* of the epoch to the centroid update, and the centroids in force when the
\* labels are recomputed are the means under the labels not yet recomputed.
C3_RefreshOrder ==
    /\ [](pc = "centered" => centers = update_centroids(centers, embedded, labels))
    /\ [][/\ (pc \in {"train", "encoded"} /\ pc' \in {"train", "encoded", "centered"})
               => labels' = labels
          /\ (pc = "encoded" /\ pc' = "centered")
               => centers' = update_centroids(centers, embedded, labels)
          /\ (pc = "centered" /\ pc' = "train")
               => /\ centers' = centers
                  /\ labels' = predict_hard(embedded, centers)]_vars

C3_Witness ==
    /\ pc = "centered"
    /\ epoch >= 1
    /\ predict_hard(embedded, centers) # labels

\* C4: update_centroids returns, for a cluster without samples, the module's
\* current centroid of that cluster, so that no centroid of the module or of
\* cluster_centers_ is NaN.
EmptyCluster(i, labelRow) == \A j \in 1..Len(labelRow) : labelRow[j] # i - 1

C4_EmptyClusterKeepsCentroid ==
    /\ pc = "encoded" =>
          \A i \in 1..Len(centers) :
             EmptyCluster(i, labels) =>
                update_centroids(centers, embedded, labels)[i] = centers[i]
    /\ Running => \A i \in 1..Len(centers) : ~IsNaN(centers[i])
    /\ HasCenters =>
          \A i \in 1..Len(self["cluster_centers_"]) : ~IsNaN(self["cluster_centers_"][i])

\* C5: predict(X) on the data of a fit that succeeded returns labels_.
C5_PredictReproducesLabels ==
    (outcome = "ok" /\ predOut # <<>> /\ predOut[1].X = X)
       => predOut[1].labels = self["labels_"]

\* C6: predict changes neither labels_ nor cluster_centers_ nor the stored
\* network, and a predict with the X of the predict before it, no fit in
\* between, returns the labels that one returned.
C6_PredictPure ==
    [][(pc = "idle" /\ pc' = "idle" /\ predOut' # <<>> /\ outcome' = outcome)
          => /\ self' = self
             /\ neural_network' = neural_network
             /\ (predOut # <<>> /\ predOut[1].X = predOut'[1].X)
                   => predOut'[1].labels = predOut[1].labels]_vars

C6_Witness ==
    /\ predOut # <<>>
    /\ outcome = "ok"
    /\ predOut[1].X = X
    /\ predOut[1].labels # self["labels_"]

\* C7: with augmentation_invariance set and no custom_dataloaders, fit raises
\* before anything runs: no fit is ever in progress, no network exists or is
\* stored, no optimizer step and no refresh are made, no result is stored.
C7_ConfigErrorBeforeTraining ==
    (cfg.augmentation_invariance /\ cfg.custom_dataloaders = None)
       => /\ pc = "idle"
          /\ outcome \in {"none", "error"}
          /\ net = <<>>
          /\ neural_network = <<>>
          /\ optSteps = 0
          /\ refreshes = 0
          /\ DOMAIN self = {}

C7_Witness ==
    /\ cfg.augmentation_invariance
    /\ cfg.custom_dataloaders = None
    /\ outcome = "error"

\* C8, as stated: after a fit that failed the estimator has neither labels_
\* nor cluster_centers_.
C8_FailedFitLeavesNoResult ==
    outcome = "error" => ~HasLabels /\ ~HasCenters

\* C8, amended: a fit that fails writes neither labels_ nor cluster_centers_;
\* the two are written only by the step that returns from a successful fit.
C8_FailedFitWritesNoResult ==
    [][/\ outcome' = "error" => self' = self
       /\ self' # self => (pc = "train" /\ outcome' = "ok")]_vars

C8_Witness ==
    /\ outcome = "error"
    /\ HasLabels
    /\ HasCenters

\* C9: the loop runs n_epochs epochs and no more: at the loop head the refreshes
\* made are the epochs completed and the optimizer steps are those of the
\* batches passed, and a step of the loop or the return is possible; every step
\* that stays in the loop advances it (no step is repeated, so the loop ends);
\* a fit that returned made n_epochs refreshes and n_epochs passes over the
\* training loader, none of either for n_epochs = 0.
LoopPosition ==
    epoch * (NumBatches(X) + 3) + batch
       + (IF pc = "encoded" THEN 1 ELSE IF pc = "centered" THEN 2 ELSE 0)

C9_EpochCountExact ==
    /\ [](pc = "train" =>
            /\ epoch <= cfg.clustering_epochs
            /\ batch <= NumBatches(X)
            /\ refreshes = epoch
            /\ optSteps = epoch * NumBatches(X) + batch
            /\ ENABLED (TrainBatch \/ EncodeAll \/ FitReturn))
    /\ [](outcome = "ok" =>
            /\ refreshes = cfg.clustering_epochs
            /\ optSteps = cfg.clustering_epochs * NumBatches(X))
    /\ [][(Running /\ Running') => LoopPosition' = LoopPosition + 1]_vars

C9_Witness ==
    /\ outcome = "ok"
    /\ refreshes = MaxEpochs
    /\ NumBatches(X) >= 2
    /\ optSteps = refreshes * NumBatches(X)

\* C10: fit never writes y, and no value of y reaches the module's labels, the
\* stored labels_ or a prediction.
TruthIds == IF y = <<>> THEN {} ELSE {y[1][j] : j \in 1..Len(y[1])}

FromY(row) == \E j \in 1..Len(row) : row[j] \in TruthIds

C10_YUnused ==
    /\ [][pc # "idle" => y' = y]_vars
    /\ [](/\ ~FromY(labels)
          /\ HasLabels => ~FromY(self["labels_"].data)
          /\ predOut # <<>> => ~FromY(predOut[1].labels.data))

C10_Witness ==
    /\ outcome = "ok"
    /\ y # <<>>
    /\ cfg.clustering_epochs >= 1

\* C11: in an epoch, labels and centers are assigned once each, in the refresh
\* phase (centers by the step after the encoding, labels by the step that ends
\* the epoch); no mini-batch and no encoding changes them, so the batches of an
\* epoch see the labels and centers the previous epoch (or the initialization)
\* left.
C11_LabelsCentersAssignedInRefresh ==
    /\ [][(pc = "train" /\ pc' \in {"train", "encoded"}) =>
             (labels' = labels /\ centers' = centers /\ epoch' = epoch)]_vars
    /\ [][(Running /\ Running' /\ centers' # centers) =>
             (pc = "encoded" /\ pc' = "centered")]_vars
    /\ [][(Running /\ Running' /\ labels' # labels) =>
             (pc = "centered" /\ pc' = "train")]_vars
    /\ [][(pc = "encoded" /\ Running') =>
             (pc' = "centered" /\ epoch' = epoch /\ labels' = labels)]_vars
    /\ [][(pc = "centered" /\ Running') =>
             (pc' = "train" /\ epoch' = epoch + 1 /\ centers' = centers)]_vars

\* a mini-batch of a later epoch has changed the network, and the labels are
\* no longer the nearest-center labels of the current embeddings
C11_Witness ==
    /\ pc = "train"
    /\ epoch >= 1
    /\ batch >= 1
    /\ predict_hard(encode_batchwise(X, net[1]), centers) # labels
    /\ update_centroids(centers, encode_batchwise(X, net[1]), labels) # centers

\* C12: each mini-batch does loss, zero_grad, backward, step, once each and in
\* this order; the optimizer steps only in a mini-batch, never in a refresh
\* phase, and a completed fit has made clustering_epochs * len(trainloader)
\* steps.
C12_OneStepPerBatchInOrder ==
    /\ [][(pc = "train" /\ pc' = "train" /\ batch' = batch + 1) =>
             /\ optSteps' = optSteps + 1
             /\ batchOps' = <<"loss", "zero_grad", "backward", "step">>]_vars
    /\ [][(pc # "idle" /\ optSteps' # optSteps) =>
             /\ pc = "train"
             /\ pc' = "train"
             /\ batch < NumBatches(X)
             /\ batch' = batch + 1
             /\ optSteps' = optSteps + 1]_vars
    /\ [][(pc \in {"encoded", "centered"}) =>
             (optSteps' = optSteps /\ batchOps' \in {batchOps, <<>>})]_vars
    /\ [](outcome = "ok" => optSteps = cfg.clustering_epochs * NumBatches(X))

C12_Witness ==
    /\ pc = "train"
    /\ epoch >= 1
    /\ NumBatches(X) >= 2
    /\ batch = NumBatches(X)
    /\ batchOps = <<"loss", "zero_grad", "backward", "step">>
    /\ optSteps = (epoch + 1) * NumBatches(X)

\* C13: after update_centroids, the centroid of every cluster that has a sample
\* is the mean, column by column, of the rows with the cluster's label, and
\* stays the same when a row with another label is replaced.
RECURSIVE LabelledSum(_, _, _, _, _)
LabelledSum(rows, labelRow, i, d, n) ==
    IF n = 0 THEN 0
    ELSE LabelledSum(rows, labelRow, i, d, n - 1)
            + (IF labelRow[n] = i THEN rows[n][d] ELSE 0)

C13_CentroidIsMeanOfOwnRows ==
    pc = "centered" =>
        \A i \in 0..(Len(centers) - 1) :
            LET own == {j \in 1..Len(labels) : labels[j] = i}
                c   == centers[i + 1]
            IN  own # {} =>
                  /\ c.cnt > 0
                  /\ \A d \in 1..Len(c.sum) :
                        c.sum[d] * Cardinality(own)
                           = c.cnt * LabelledSum(embedded, labels, i, d, Len(labels))
                  /\ \A j \in (1..Len(labels)) \ own : \A e \in RefreshRows :
                        update_centroids(centers, [embedded EXCEPT ![j] = e], labels)[i + 1] = c

\* a cluster of two different rows, next to a row of another label that
\* differs from both
C13_Witness ==
    /\ pc = "centered"
    /\ \E i \in 0..(Len(centers) - 1) :
          \E a, b, o \in 1..Len(labels) :
             /\ labels[a] = i
             /\ labels[b] = i
             /\ labels[o] # i
             /\ embedded[a] # embedded[b]
             /\ embedded[o] \notin {embedded[a], embedded[b]}

\* C14: the refresh starts after the last mini-batch of the epoch; its
\* embeddings are those of the whole data set, in order, under the network the
\* last optimizer step left; the refresh does not change the network, and the
\* centroid update and the label refresh read the same embeddings.
C14_RefreshEncodesAfterLastBatch ==
    /\ [](pc \in {"encoded", "centered"} =>
            /\ batch = NumBatches(X)
            /\ optSteps = (epoch + 1) * NumBatches(X)
            /\ Len(embedded) = Len(X)
            /\ embedded = encode_batchwise(X, net[1]))
    /\ [][(pc = "train" /\ pc' = "encoded") =>
             (batch = NumBatches(X) /\ net' = net /\ neural_network' = neural_network)]_vars
    /\ [][(pc \in {"encoded", "centered"} /\ Running') =>
             (net' = net /\ neural_network' = neural_network)]_vars
    /\ [][(pc = "encoded" /\ pc' = "centered") =>
             (embedded' = embedded /\ centers' = update_centroids(centers, embedded, labels))]_vars
    /\ [][(pc = "centered" /\ pc' = "train") =>
             labels' = predict_hard(embedded, centers)]_vars

C14_Witness ==
    /\ pc = "centered"
    /\ epoch >= 1
    /\ NumBatches(X) >= 2
    /\ net[1].w > 0
    /\ \E j, k \in 1..Len(embedded) : embedded[j] # embedded[k]

C17_LabelsAreCenterIndices ==
    (Running /\ epoch >= 1) =>
        /\ Len(centers) = cfg.n_clusters
        /\ \A j \in 1..Len(labels) : labels[j] \in 0..(Len(centers) - 1)

\* every initial label was the noise label (no cluster had a sample), and one
\* epoch later the labels are indices
C17_Witness ==
    /\ pc = "train"
    /\ epoch = 1
    /\ batch = 0
    /\ \A i \in 1..Len(centers) : IsNaN(centers[i])
    /\ \A j \in 1..Len(labels) : labels[j] = 0

\* C18 as stated: of the calls for one file at most one downloads.
C18_AtMostFirstCallDownloads ==
    \A f \in DataFiles : downloads[f] <= 1

\* C18: _load_data_file downloads exactly when no file is at the path; a file
\* that is there, complete or not, is never downloaded again nor changed, and a
\* download that left no file is repeated by the next call for the file.
ExistingFilesKept ==
    \A f \in DataFiles :
        files[f] # "absent" => (files'[f] = files[f] /\ downloads'[f] = downloads[f])

C18_DownloadIffNoFile ==
    /\ [](lpc = "fetch" => files[lfile] = "absent")
    /\ [][lpc = "check" => lpc' = (IF files[lfile] = "absent" THEN "fetch" ELSE "read")]_vars
    /\ [][downloads' # downloads =>
             /\ lpc = "fetch"
             /\ downloads' = [downloads EXCEPT ![lfile] = @ + 1]]_vars
    /\ [][ExistingFilesKept]_vars
    /\ [](\A f \in DataFiles : files[f] = "absent" \/ downloads[f] <= lcalls)

\* the first call's download left no file, and a later call has downloaded it
C18_Witness ==
    /\ lpc = "read"
    /\ lfile = "optdigits.tra"
    /\ downloads["optdigits.tra"] = 2
    /\ files["optdigits.tra"] = "complete"

\* C19 as stated: when no loader call is in progress, the default HTTPS context
\* factory is the verifying one.
C19_ContextRestoredOnReturn ==
    lpc = "idle" => https_context = "verified"

====
